---- MODULE Spec2Model ----
(***************************************************************************)
(* Model of psi-monitor's run orchestration (the config-file variant of    *)
(* monitor with the retry pass): fetchLighthouseScore, retryWithDelay,     *)
(* saveResults, saveMetricsToCSV and monitor.                              *)
(*                                                                         *)
(* monitor is one async function.  Its control points are kept in pc; the  *)
(* SIGINT handler runs only while monitor is suspended in an await         *)
(* (AwaitPoints).  Variables below the line "history" are not program      *)
(* state: they record what the run has done so that properties can be      *)
(* stated.                                                                 *)
(***************************************************************************)
EXTENDS Integers, Sequences, FiniteSets, TLC

MaxPages == 3
MaxRetries == 2
MaxClock == 2
MaxCalls == 3

VARIABLES
  retries,          \* config.retries
  parsedPages,      \* result of parsePages: sequence of page ids
  aborted,          \* signal.aborted
  pc,               \* control point of monitor
  pass,             \* 1: first loop (line 232), 2: retry loop (line 291)
  idx,              \* position of the loop in its input, 0 before the first
  rAttempt,         \* retryWithDelay's attempt
  attempt,          \* fetchLighthouseScore's attempt
  data,             \* the value bound to data at line 234 / 293
  successCount,
  failureCount,
  failedPages,
  newFailedPages,
  log,              \* the summaries written to the console
  \* ---- history ----
  inflight,         \* pages with a network request in flight
  broke,            \* broke[p]: the loop of pass p was left by break
  fCalls,           \* fetch() invocations of the running fetchLighthouseScore
  fWaits,           \* waits begun by the running fetchLighthouseScore
  fExit,            \* how the last fetchLighthouseScore invocation ended
  tReqs,            \* network requests issued for the current target
  fetched,          \* pages of this pass whose remote call succeeded
  failedCall,       \* pages of this pass with a failed remote call
  perr,             \* pages of this pass whose persistence raised
  succeeded,        \* pages of this pass recorded as success
  failed,           \* pages of this pass recorded as failure
  rawSaved,         \* pages of this pass whose raw result was written
  csvSaved,         \* pages of this pass whose metrics row was written
  abortAt,          \* <<pass, idx>> when the token was set, <<0, 0>> before
  passes,           \* number of passes started
  failed1,          \* pages recorded as failure in the first pass
  succeeded1,       \* pages recorded as success in the first pass
  \* ---- input ----
  config,           \* what fs.readJson(configPath) returns
  \* ---- environment ----
  now,              \* the clock, in seconds
  rawFiles,         \* the raw result files that exist
  csvFiles,         \* the metrics.csv of each context directory
  ctxDirs,          \* the context directories that exist
  \* ---- history of the store ----
  saves,            \* the saveResults calls that wrote their file
  appended,         \* per metrics.csv, the rows written by successful calls
  csvPrior,         \* the metrics.csv files as they were at the start
  nCalls            \* calls made on the store by StoreSpec

prog == <<retries, parsedPages, aborted, pc, pass, idx, rAttempt, attempt,
          data, successCount, failureCount, failedPages, newFailedPages, log>>
hist == <<inflight, broke, fCalls, fWaits, fExit, tReqs, fetched, failedCall,
          perr, succeeded, failed, rawSaved, csvSaved, abortAt, passes,
          failed1, succeeded1>>
store == <<now, rawFiles, csvFiles, ctxDirs, saves, appended, csvPrior,
           nCalls>>
vars == <<prog, hist, config, store>>

\* the places where monitor is suspended and the event loop can run the
\* SIGINT handler: the fetch, the two timers, the two saves, the prompt
AwaitPoints == {"inflight", "wait", "rwait", "save", "csv", "prompt"}

Ids(n) == [i \in 1..n |-> i]

Range(s) == {s[i] : i \in 1..Len(s)}

\* for (let attempt = 1; attempt <= retries; attempt++)
LoopCond(a, k) == a <= k

\* if (attempt < retries) in fetchLighthouseScore's catch
InnerRetryAllowed_Le(a, k) == a <= k
InnerRetryAllowed(a, k) == a < k

\* if (attempt < retries) in retryWithDelay's catch
OuterRetryAllowed(a, k) == a < k

\* fetch(url, { signal }): a signal that is already aborted rejects the
\* call before any request is sent
FetchRejectsEarly_Never(ab) == FALSE
FetchRejectsEarly(ab) == ab

\* if (signal.aborted) in fetchLighthouseScore's catch
InnerCatchAborted(ab) == ab

\* if (signal.aborted) in monitor's catch
CatchAborted_Always(ab) == TRUE
CatchAborted_Never(ab) == FALSE
CatchAborted(ab) == ab

\* failedPages.push(page) / newFailedPages.push(page)
PushFailed_Twice(list, page) == list \o <<page, page>>
PushFailed_Front(list, page) == <<page>> \o list
PushFailed(list, page) == Append(list, page)

\* successCount = 0; failureCount = 0 before the retry loop
ResetCount_Keep(c) == c
ResetCount(c) == 0

\* if (failedPages.length > 0)
ShouldPrompt(fp) == Len(fp) > 0

\* the for...of iterator's advance to the next element
NextIdx_Skip(i) == i + 2
NextIdx(i) == i + 1

\* the sequence the loop of the given pass iterates
PassInput_All(p) == parsedPages
PassInput(p) == IF p = 1 THEN parsedPages ELSE failedPages

\* the page bound by for (const page of ...)
CurPage == PassInput(pass)[idx]

\* ---- the config file (readConfig, parsePages) ----

\* an entry of config.pages is a page id, or 0 for an entry that lacks
\* context, title or url
BadEntry == 0

PageLists ==
  {Ids(n) : n \in 0..MaxPages}
    \cup {[Ids(n) EXCEPT ![j] = BadEntry] : n \in 1..MaxPages, j \in 1..MaxPages}

Configs ==
  [apiKey : {"missing", "empty", "key"},
   pages : [kind : {"missing", "notArray"}, list : {<<>>}]
             \cup [kind : {"array"}, list : PageLists]]

\* if (!data.apiKey) ... if (!data.pages || !Array.isArray(data.pages))
ReadConfigThrows(c) == c.apiKey # "key" \/ c.pages.kind # "array"

\* if (!page.context || !page.title || !page.url) throw
ParsePagesThrows(list) == \E i \in 1..Len(list) : list[i] = BadEntry

\* pages.map(page => ({context, title, url}))
ParsePages(list) == [i \in 1..Len(list) |-> list[i]]

\* the context and the title of the page with the given id
PageContext(p) == IF p % 2 = 1 THEN <<"a">> ELSE <<"b">>
PageTitle(p) == IF p <= 2 THEN "t" ELSE "u"

\* ---- the result store (saveResults, saveMetricsToCSV) ----

\* context strings, as sequences of characters
Contexts == {<<"a">>, <<"a", "/">>, <<"b">>}
Titles == {"t", "u"}

\* the directory segments path.join keeps of a context: the maximal runs of
\* characters other than the separator
RECURSIVE SplitAcc(_, _, _)
SplitAcc(str, cur, acc) ==
  IF str = <<>>
  THEN IF cur = <<>> THEN acc ELSE Append(acc, cur)
  ELSE IF Head(str) = "/"
  THEN SplitAcc(Tail(str), <<>>, IF cur = <<>> THEN acc ELSE Append(acc, cur))
  ELSE SplitAcc(Tail(str), Append(cur, Head(str)), acc)

Split(str) == SplitAcc(str, <<>>, <<>>)

\* format(new Date(), "yyyy-MM-dd"): a day is two seconds of the clock
DateOf(t) == t \div 2

\* format(new Date(), "yyyy-MM-dd_HH:mm:ss")
FileStamp_Date(t) == DateOf(t)
FileStamp(t) == t

\* path.join(resultsDir, context, date, `${title}-${stamp}.json`)
RawPath(ctx, title, t) ==
  [dir |-> Split(ctx), date |-> DateOf(t), title |-> title,
   stamp |-> FileStamp(t)]

\* path.join(resultsDir, context, "metrics.csv")
CsvPath(ctx) == Split(ctx)

CsvDirs == {CsvPath(c) : c \in Contexts}

\* the header row and a data row of metrics.csv
Header == [title |-> "Page", date |-> -1]
Row(title, t) == [title |-> title, date |-> t]

Absent == [exists |-> FALSE, rows |-> <<>>]

\* the directory of a context exists once saveResults has ensured it; the
\* results directory itself is ensured by saveMetricsToCSV (line 132)
DirExists(d) == d = <<>> \/ d \in ctxDirs

\* append = st.size > 0, false when fs.access throws
AppendFlag_Never(f) == FALSE
AppendFlag(f) == f.exists /\ Len(f.rows) > 0

\* csv-writer writes the header unless it was created with append: true
WritesHeader_Always(append) == TRUE
WritesHeader(append) == ~append

\* csvWriter.writeRecords([record]): flag "a" when appending, else "w"
CsvWrite(f, row) ==
  LET append == AppendFlag(f) IN
  [exists |-> TRUE,
   rows |-> (IF append THEN f.rows ELSE <<>>)
              \o (IF WritesHeader(append) THEN <<Header>> ELSE <<>>)
              \o <<row>>]

\* saveResults: "ok", "early" (ensureDir raised) or "late" (writeJson raised)
SaveResultsEffect(ctx, title, mode) ==
  /\ ctxDirs' = IF mode = "early" THEN ctxDirs ELSE ctxDirs \cup {Split(ctx)}
  /\ rawFiles' = IF mode = "ok" THEN rawFiles \cup {RawPath(ctx, title, now)}
                 ELSE rawFiles
  /\ saves' = IF mode = "ok"
              THEN saves \cup {[ctx |-> ctx, title |-> title, t |-> now,
                                path |-> RawPath(ctx, title, now)]}
              ELSE saves
  /\ UNCHANGED <<now, csvFiles, appended, csvPrior>>

\* the outcomes saveMetricsToCSV can have: "ok", "early" (raised before the
\* file was opened) or "opened" (the file was opened with flag "w" and the
\* write raised)
CsvModePossible(ctx, mode) ==
  CASE mode = "ok" -> DirExists(CsvPath(ctx))
    [] mode = "opened" -> DirExists(CsvPath(ctx))
                            /\ ~AppendFlag(csvFiles[CsvPath(ctx)])
    [] OTHER -> TRUE

SaveMetricsEffect(ctx, title, mode) ==
  LET d == CsvPath(ctx) IN
  /\ csvFiles' =
       CASE mode = "ok" ->
              [csvFiles EXCEPT ![d] = CsvWrite(@, Row(title, now))]
         [] mode = "opened" ->
              [csvFiles EXCEPT ![d] = [exists |-> TRUE, rows |-> <<>>]]
         [] OTHER -> csvFiles
  /\ appended' = IF mode = "ok"
                 THEN [appended EXCEPT ![d] = Append(@, Row(title, now))]
                 ELSE appended
  /\ UNCHANGED <<now, rawFiles, ctxDirs, saves, csvPrior>>

\* the value controller.abort() leaves in signal.aborted
AbortValue_Toggle(ab) == ~ab
AbortValue(ab) == TRUE

\* successCount++
IncSuccess_None(c) == c
IncSuccess(c) == c + 1

\* the page the catch of monitor counts and pushes
CaughtPage_First == PassInput(pass)[1]
CaughtPage == CurPage

\* everything but the control point, the config and the store
InitRun ==
  /\ parsedPages = <<>>
  /\ aborted = FALSE
  /\ pass = 1
  /\ idx = 0
  /\ rAttempt = 0
  /\ attempt = 0
  /\ data = "none"
  /\ successCount = 0
  /\ failureCount = 0
  /\ failedPages = <<>>
  /\ newFailedPages = <<>>
  /\ log = <<>>
  /\ inflight = {}
  /\ broke = [p \in 1..2 |-> FALSE]
  /\ fCalls = 0
  /\ fWaits = 0
  /\ fExit = "none"
  /\ tReqs = 0
  /\ fetched = {}
  /\ failedCall = {}
  /\ perr = {}
  /\ succeeded = {}
  /\ failed = {}
  /\ rawSaved = {}
  /\ csvSaved = {}
  /\ abortAt = <<0, 0>>
  /\ passes = 0
  /\ failed1 = {}
  /\ succeeded1 = {}
  /\ now = 0
  /\ rawFiles = {}
  /\ saves = {}
  /\ appended = [d \in CsvDirs |-> <<>>]
  /\ nCalls = 0

\* a run of monitor on a results directory that does not exist yet
Init ==
  /\ InitRun
  /\ retries \in 0..MaxRetries
  /\ pc = "idle"
  /\ config \in Configs
  /\ csvFiles = [d \in CsvDirs |-> Absent]
  /\ csvPrior = csvFiles
  /\ ctxDirs = {}

\* ---- monitor's catch (lines 259-270, 318-329) ----
MonitorCatch ==
  IF CatchAborted(aborted)
  THEN /\ pc' = "summary"
       /\ broke' = [broke EXCEPT ![pass] = TRUE]
       /\ UNCHANGED <<failureCount, failedPages, newFailedPages, failed,
                      failed1>>
  ELSE /\ failureCount' = failureCount + 1
       /\ failedPages' = IF pass = 1 THEN PushFailed(failedPages, CaughtPage)
                         ELSE failedPages
       /\ newFailedPages' = IF pass = 2
                            THEN PushFailed(newFailedPages, CaughtPage)
                            ELSE newFailedPages
       /\ failed' = failed \cup {CurPage}
       /\ failed1' = IF pass = 1 THEN failed1 \cup {CurPage} ELSE failed1
       /\ pc' = "loopHead"
       /\ UNCHANGED broke

\* ---- retryWithDelay's catch (lines 194-204) ----
OuterCatch ==
  IF OuterRetryAllowed(rAttempt, retries)
  THEN /\ pc' = "rwait"
       /\ UNCHANGED <<broke, failureCount, failedPages, newFailedPages,
                      failed, failed1>>
  ELSE MonitorCatch

\* ---- fetchLighthouseScore's catch (lines 80-95) ----
InnerCatch ==
  IF InnerCatchAborted(aborted)
  THEN /\ fExit' = "cancelled"
       /\ UNCHANGED fWaits
       /\ OuterCatch
  ELSE IF InnerRetryAllowed(attempt, retries)
  THEN /\ pc' = "wait"
       /\ fWaits' = fWaits + 1
       /\ UNCHANGED <<fExit, broke, failureCount, failedPages,
                      newFailedPages, failed, failed1>>
  ELSE /\ fExit' = "exhausted"
       /\ UNCHANGED fWaits
       /\ OuterCatch

\* ---- entry of fetchLighthouseScore (lines 47-62) ----
CallFetchLighthouseScore ==
  /\ attempt' = 1
  /\ fCalls' = 0
  /\ fWaits' = 0
  /\ IF LoopCond(1, retries)
     THEN /\ pc' = "fetch"
          /\ fExit' = "none"
          /\ data' = "none"
     ELSE /\ pc' = "save"
          /\ fExit' = "undefined"
          /\ data' = "undefined"

\* ---- entry of retryWithDelay (lines 186-193) ----
CallRetryWithDelay ==
  /\ rAttempt' = 1
  /\ IF LoopCond(1, retries)
     THEN CallFetchLighthouseScore
     ELSE /\ pc' = "save"
          /\ data' = "undefined"
          /\ UNCHANGED <<attempt, fCalls, fWaits, fExit>>

\* ---- monitor up to the first loop (lines 208-230) ----
Start ==
  /\ pc = "idle"
  /\ IF ReadConfigThrows(config) \/ ParsePagesThrows(config.pages.list)
     THEN /\ pc' = "configError"
          /\ UNCHANGED <<parsedPages, passes>>
     ELSE /\ pc' = "loopHead"
          /\ parsedPages' = ParsePages(config.pages.list)
          /\ passes' = 1
  /\ successCount' = 0
  /\ failureCount' = 0
  /\ failedPages' = <<>>
  /\ UNCHANGED <<retries, aborted, pass, idx, rAttempt, attempt,
                 data, newFailedPages, log>>
  /\ UNCHANGED <<inflight, broke, fCalls, fWaits, fExit, tReqs, fetched,
                 failedCall, perr, succeeded, failed, rawSaved, csvSaved,
                 abortAt, failed1, succeeded1>>
  /\ UNCHANGED config
  /\ UNCHANGED store

\* ---- for (const page of ...) (lines 232-245, 291-304) ----
LoopNext ==
  /\ pc = "loopHead"
  /\ IF idx < Len(PassInput(pass))
     THEN /\ idx' = NextIdx(idx)
          /\ tReqs' = 0
          /\ CallRetryWithDelay
     ELSE /\ pc' = "summary"
          /\ UNCHANGED <<idx, tReqs, rAttempt, attempt, fCalls, fWaits,
                         fExit, data>>
  /\ UNCHANGED <<retries, parsedPages, aborted, pass, successCount,
                 failureCount, failedPages, newFailedPages, log>>
  /\ UNCHANGED <<inflight, broke, fetched, failedCall, perr, succeeded,
                 failed, rawSaved, csvSaved, abortAt, passes, failed1,
                 succeeded1>>
  /\ UNCHANGED config
  /\ UNCHANGED store

\* ---- await fetch(...) is invoked (lines 64-69) ----
FetchCall ==
  /\ pc = "fetch"
  /\ fCalls' = fCalls + 1
  /\ IF FetchRejectsEarly(aborted)
     THEN /\ InnerCatch
          /\ UNCHANGED <<inflight, tReqs>>
     ELSE /\ pc' = "inflight"
          /\ inflight' = inflight \cup {CurPage}
          /\ tReqs' = tReqs + 1
          /\ UNCHANGED <<fWaits, fExit, broke, failureCount, failedPages,
                         newFailedPages, failed, failed1>>
  /\ UNCHANGED <<retries, parsedPages, aborted, pass, idx, rAttempt, attempt,
                 data, successCount, log>>
  /\ UNCHANGED <<fetched, failedCall, perr, succeeded, rawSaved, csvSaved,
                 abortAt, passes, succeeded1>>
  /\ UNCHANGED config
  /\ UNCHANGED store

\* ---- the response is ok and its body parsed (lines 71-79) ----
FetchOk ==
  /\ pc = "inflight"
  /\ ~aborted
  /\ inflight' = inflight \ {CurPage}
  /\ data' = "result"
  /\ fExit' = "ok"
  /\ fetched' = fetched \cup {CurPage}
  /\ pc' = "save"
  /\ UNCHANGED <<retries, parsedPages, aborted, pass, idx, rAttempt, attempt,
                 successCount, failureCount, failedPages, newFailedPages,
                 log>>
  /\ UNCHANGED <<broke, fCalls, fWaits, tReqs, failedCall, perr, succeeded,
                 failed, rawSaved, csvSaved, abortAt, passes, failed1,
                 succeeded1>>
  /\ UNCHANGED config
  /\ UNCHANGED store

\* ---- the request fails: network error, non-ok response, or abort ----
FetchFail ==
  /\ pc = "inflight"
  /\ inflight' = inflight \ {CurPage}
  /\ failedCall' = failedCall \cup {CurPage}
  /\ InnerCatch
  /\ UNCHANGED <<retries, parsedPages, aborted, pass, idx, rAttempt, attempt,
                 data, successCount, log>>
  /\ UNCHANGED <<fCalls, tReqs, fetched, perr, succeeded, rawSaved, csvSaved,
                 abortAt, passes, succeeded1>>
  /\ UNCHANGED config
  /\ UNCHANGED store

\* ---- await setTimeout(delay) of fetchLighthouseScore ends (line 90) ----
WaitDone ==
  /\ pc = "wait"
  /\ attempt' = attempt + 1
  /\ IF LoopCond(attempt + 1, retries)
     THEN /\ pc' = "fetch"
          /\ UNCHANGED <<fExit, data>>
     ELSE /\ pc' = "save"
          /\ fExit' = "undefined"
          /\ data' = "undefined"
  /\ UNCHANGED <<retries, parsedPages, aborted, pass, idx, rAttempt,
                 successCount, failureCount, failedPages, newFailedPages,
                 log>>
  /\ UNCHANGED <<inflight, broke, fCalls, fWaits, tReqs, fetched, failedCall,
                 perr, succeeded, failed, rawSaved, csvSaved, abortAt, passes,
                 failed1, succeeded1>>
  /\ UNCHANGED config
  /\ UNCHANGED store

\* ---- await setTimeout(delay) of retryWithDelay ends (line 199) ----
RWaitDone ==
  /\ pc = "rwait"
  /\ rAttempt' = rAttempt + 1
  /\ IF LoopCond(rAttempt + 1, retries)
     THEN CallFetchLighthouseScore
     ELSE /\ pc' = "save"
          /\ data' = "undefined"
          /\ UNCHANGED <<attempt, fCalls, fWaits, fExit>>
  /\ UNCHANGED <<retries, parsedPages, aborted, pass, idx, successCount,
                 failureCount, failedPages, newFailedPages, log>>
  /\ UNCHANGED <<inflight, broke, tReqs, fetched, failedCall, perr,
                 succeeded, failed, rawSaved, csvSaved, abortAt, passes,
                 failed1, succeeded1>>
  /\ UNCHANGED config
  /\ UNCHANGED store

\* ---- await saveResults(...) (lines 106-122, 246-251) ----
\* In a run of monitor a save that raises is taken to raise before it wrote
\* anything; StoreSpec explores the other ways a save can fail.
SaveResults(ok) ==
  /\ pc = "save"
  /\ IF ok
     THEN /\ SaveResultsEffect(PageContext(CurPage), PageTitle(CurPage), "ok")
          /\ rawSaved' = rawSaved \cup {CurPage}
          /\ pc' = "csv"
          /\ UNCHANGED <<perr, broke, failureCount, failedPages,
                         newFailedPages, failed, failed1>>
     ELSE /\ SaveResultsEffect(PageContext(CurPage), PageTitle(CurPage),
                               "early")
          /\ perr' = perr \cup {CurPage}
          /\ MonitorCatch
          /\ UNCHANGED rawSaved
  /\ UNCHANGED <<retries, parsedPages, aborted, pass, idx, rAttempt, attempt,
                 data, successCount, log>>
  /\ UNCHANGED <<inflight, fCalls, fWaits, fExit, tReqs, fetched, failedCall,
                 succeeded, csvSaved, abortAt, passes, succeeded1>>
  /\ UNCHANGED <<config, nCalls>>

\* ---- await saveMetricsToCSV(...); successCount++ (lines 124-184, 252-258)
SaveMetricsToCSV(ok) ==
  /\ pc = "csv"
  /\ IF ok /\ data # "undefined"
          /\ CsvModePossible(PageContext(CurPage), "ok")
     THEN /\ SaveMetricsEffect(PageContext(CurPage), PageTitle(CurPage),
                               "ok")
          /\ csvSaved' = csvSaved \cup {CurPage}
          /\ successCount' = IncSuccess(successCount)
          /\ succeeded' = succeeded \cup {CurPage}
          /\ succeeded1' = IF pass = 1 THEN succeeded1 \cup {CurPage}
                           ELSE succeeded1
          /\ pc' = "loopHead"
          /\ UNCHANGED <<perr, broke, failureCount, failedPages,
                         newFailedPages, failed, failed1>>
     ELSE /\ SaveMetricsEffect(PageContext(CurPage), PageTitle(CurPage),
                               "early")
          /\ perr' = perr \cup {CurPage}
          /\ MonitorCatch
          /\ UNCHANGED <<csvSaved, successCount, succeeded, succeeded1>>
  /\ UNCHANGED <<retries, parsedPages, aborted, pass, idx, rAttempt, attempt,
                 data, log>>
  /\ UNCHANGED <<inflight, fCalls, fWaits, fExit, tReqs, fetched, failedCall,
                 rawSaved, abortAt, passes>>
  /\ UNCHANGED <<config, nCalls>>

\* ---- process.on("SIGINT", () => controller.abort()) (lines 223-226) ----
Sigint ==
  /\ pc \in AwaitPoints
  /\ aborted' = AbortValue(aborted)
  /\ abortAt' = IF aborted THEN abortAt ELSE <<pass, idx>>
  /\ UNCHANGED <<retries, parsedPages, pc, pass, idx, rAttempt, attempt,
                 data, successCount, failureCount, failedPages,
                 newFailedPages, log>>
  /\ UNCHANGED <<inflight, broke, fCalls, fWaits, fExit, tReqs, fetched,
                 failedCall, perr, succeeded, failed, rawSaved, csvSaved,
                 passes, failed1, succeeded1>>
  /\ UNCHANGED config
  /\ UNCHANGED store

\* ---- the summary after a loop (lines 273-277, 332-339) ----
PrintSummary ==
  /\ pc = "summary"
  /\ log' = Append(log, [pass |-> pass,
                         success |-> successCount,
                         failure |-> failureCount,
                         failed |-> IF pass = 2 THEN newFailedPages
                                    ELSE <<>>])
  /\ pc' = IF pass = 1 /\ ShouldPrompt(failedPages) THEN "prompt" ELSE "done"
  /\ UNCHANGED <<retries, parsedPages, aborted, pass, idx, rAttempt, attempt,
                 data, successCount, failureCount, failedPages,
                 newFailedPages>>
  /\ UNCHANGED hist
  /\ UNCHANGED config
  /\ UNCHANGED store

\* ---- the answer to inquirer.prompt (lines 278-290) ----
Confirm(retry) ==
  /\ pc = "prompt"
  /\ IF retry
     THEN /\ successCount' = ResetCount(successCount)
          /\ failureCount' = ResetCount(failureCount)
          /\ newFailedPages' = <<>>
          /\ pass' = 2
          /\ idx' = 0
          /\ pc' = "loopHead"
          /\ passes' = passes + 1
          /\ fetched' = {}
          /\ failedCall' = {}
          /\ perr' = {}
          /\ succeeded' = {}
          /\ failed' = {}
          /\ rawSaved' = {}
          /\ csvSaved' = {}
     ELSE /\ pc' = "done"
          /\ UNCHANGED <<successCount, failureCount, newFailedPages, pass,
                         idx, passes, fetched, failedCall, perr, succeeded,
                         failed, rawSaved, csvSaved>>
  /\ UNCHANGED <<retries, parsedPages, aborted, rAttempt, attempt, data,
                 failedPages, log>>
  /\ UNCHANGED <<inflight, broke, fCalls, fWaits, fExit, tReqs, abortAt,
                 failed1, succeeded1>>
  /\ UNCHANGED config
  /\ UNCHANGED store

Next ==
  \/ Start
  \/ LoopNext
  \/ FetchCall
  \/ FetchOk
  \/ FetchFail
  \/ WaitDone
  \/ RWaitDone
  \/ \E ok \in BOOLEAN : SaveResults(ok)
  \/ \E ok \in BOOLEAN : SaveMetricsToCSV(ok)
  \/ Sigint
  \/ PrintSummary
  \/ \E retry \in BOOLEAN : Confirm(retry)

Spec == Init /\ [][Next]_vars

\* ---- the run under the assumption that every await returns ----

\* the steps of monitor up to the end of a pass: each await returns
AwaitReturns ==
  \/ Start
  \/ LoopNext
  \/ FetchCall
  \/ FetchOk
  \/ FetchFail
  \/ WaitDone
  \/ RWaitDone
  \/ \E ok \in BOOLEAN : SaveResults(ok)
  \/ \E ok \in BOOLEAN : SaveMetricsToCSV(ok)
  \/ PrintSummary

\* inquirer.prompt returns with an answer
PromptReturns == \E retry \in BOOLEAN : Confirm(retry)

\* the steps of monitor itself: every action but the SIGINT handler
Returns_ExceptPrompt == AwaitReturns
Returns == AwaitReturns \/ PromptReturns

FairSpec == Spec /\ WF_vars(Returns)

\* ---- the store on its own: any sequence of saveResults and ----
\* ---- saveMetricsToCSV calls, on the files earlier runs left   ----

\* a row written by an earlier run
OldRow == [title |-> "t", date |-> -2]

\* a metrics.csv as earlier runs can have left it
PriorFiles ==
  {Absent,
   [exists |-> TRUE, rows |-> <<>>],
   [exists |-> TRUE, rows |-> <<Header, OldRow>>]}

StoreInit ==
  /\ InitRun
  /\ retries = 1
  /\ pc = "store"
  /\ config = [apiKey |-> "key", pages |-> [kind |-> "array", list |-> <<>>]]
  /\ \E f \in PriorFiles :
       /\ csvFiles = [d \in CsvDirs |-> f]
       /\ ctxDirs \in {S \in SUBSET CsvDirs : f.exists => S = CsvDirs}
  /\ csvPrior = csvFiles

StoreSaveResults(ctx, title, mode) ==
  /\ pc = "store"
  /\ nCalls < MaxCalls
  /\ nCalls' = nCalls + 1
  /\ SaveResultsEffect(ctx, title, mode)
  /\ UNCHANGED <<prog, hist, config>>

StoreSaveMetrics(ctx, title, mode) ==
  /\ pc = "store"
  /\ nCalls < MaxCalls
  /\ nCalls' = nCalls + 1
  /\ CsvModePossible(ctx, mode)
  /\ SaveMetricsEffect(ctx, title, mode)
  /\ UNCHANGED <<prog, hist, config>>

\* the clock advances by a second
Tick ==
  /\ pc = "store"
  /\ now < MaxClock
  /\ now' = now + 1
  /\ UNCHANGED <<rawFiles, csvFiles, ctxDirs, saves, appended, csvPrior,
                 nCalls>>
  /\ UNCHANGED <<prog, hist, config>>

StoreNext ==
  \/ \E ctx \in Contexts, title \in Titles, mode \in {"ok", "early", "late"} :
       StoreSaveResults(ctx, title, mode)
  \/ \E ctx \in Contexts, title \in Titles,
        mode \in {"ok", "early", "opened"} :
       StoreSaveMetrics(ctx, title, mode)
  \/ Tick

StoreSpec == StoreInit /\ [][StoreNext]_vars

TypeOK ==
  /\ retries \in 0..MaxRetries
  /\ aborted \in BOOLEAN
  /\ pc \in {"idle", "configError", "store", "loopHead", "fetch",
             "inflight", "wait", "rwait", "save", "csv", "summary", "prompt",
             "done"}
  /\ config \in Configs
  /\ now \in 0..MaxClock
  /\ pass \in 1..2
  /\ idx \in 0..Len(PassInput(pass))
  /\ data \in {"none", "result", "undefined"}
  /\ fExit \in {"none", "ok", "cancelled", "exhausted", "undefined"}


\* ---- definitions shared by the properties ----

\* the pcs at which the loop of the current pass is over
PassEnded == pc \in {"summary", "prompt", "done"}

\* the pcs inside the per-target procedure
InTarget == pc \in {"fetch", "inflight", "wait", "rwait", "save", "csv"}

\* targets the loop did not finish: those after idx, and the one at idx when
\* the loop was left by break
UnprocessedCount ==
  (Len(PassInput(pass)) - idx) + (IF broke[pass] THEN 1 ELSE 0)

\* the failed list the current pass appends to
PassFailedList == IF pass = 1 THEN failedPages ELSE newFailedPages

\* the elements of s that are in the set F, in the order of s
Restrict(s, F) == SelectSeq(s, LAMBDA x : x \in F)

\* ---- C1 ----
\* C1: in a pass every target is in exactly one of succeeded, failed or
\* unprocessed; the counters count the first two, and when the pass has ended
\* successCount + failureCount + unprocessedCount = N, with unprocessed
\* targets only if the cancellation token was set.
C1_PassPartition ==
  pc # "idle" =>
    /\ succeeded \cap failed = {}
    /\ (succeeded \cup failed) \subseteq Range(PassInput(pass))
    /\ successCount = Cardinality(succeeded)
    /\ failureCount = Cardinality(failed)
    /\ PassEnded =>
         /\ successCount + failureCount + UnprocessedCount
              = Len(PassInput(pass))
         /\ UnprocessedCount > 0 => aborted

C1_Witness ==
  /\ pc = "summary"
  /\ pass = 1
  /\ Len(parsedPages) = 3
  /\ successCount = 1
  /\ failureCount = 1
  /\ UnprocessedCount = 1
  /\ aborted

\* ---- C2 ----
\* C2: when no cancellation and no persistence failure happened, retries >= 1
\* and every target's remote call either always failed (the set F) or
\* succeeded, the first pass ends with successCount = N - |F|,
\* failureCount = |F| and failedPages = F in input order.
C2_Pre ==
  /\ PassEnded
  /\ pass = 1
  /\ retries >= 1
  /\ ~aborted
  /\ perr = {}
  /\ fetched \cap failedCall = {}

C2_FirstPassSummary ==
  C2_Pre =>
    /\ successCount = Len(parsedPages) - Cardinality(failedCall)
    /\ failureCount = Cardinality(failedCall)
    /\ failedPages = Restrict(parsedPages, failedCall)

C2_Witness ==
  /\ C2_Pre
  /\ pc = "summary"
  /\ Len(parsedPages) = 3
  /\ failedCall = {1, 3}
  /\ failedPages = <<1, 3>>
  /\ successCount = 1

\* ---- C3 ----
\* C3: with retries = k >= 1 and the token never set, an invocation of
\* fetchLighthouseScore whose calls all fail makes exactly k calls and k-1
\* waits, one wait after each call but the last, and ends Exhausted.
C3_ExhaustedAfterK ==
  (retries >= 1 /\ ~aborted) =>
    /\ fExit \notin {"none", "ok"} =>
         /\ fExit = "exhausted"
         /\ fCalls = retries
         /\ fWaits = retries - 1
    /\ pc = "wait" => (fWaits = fCalls /\ fCalls < retries)
    /\ pc = "inflight" => (fWaits = fCalls - 1 /\ fCalls <= retries)

C3_Witness ==
  /\ retries = MaxRetries
  /\ ~aborted
  /\ fExit = "exhausted"
  /\ fCalls = MaxRetries
  /\ fWaits = MaxRetries - 1

\* ---- C4 ----
\* C4: whenever an attempt of the per-target fetch fails while the token is
\* set, the per-target fetch ends at once as cancelled: no further wait is
\* begun and no further attempt is made.
C4_CancelWinsOverRetry ==
  [][(aborted /\ pc \in {"fetch", "inflight"} /\ pc' # pc)
       => pc' = "summary"]_vars

\* ---- C5 ----
\* C5: once the token is set no new network request is started, for the
\* current target or a later one, in either pass; a request in flight while
\* the token is set belongs to the target that was being processed when the
\* token was set.
C5_NoCallAfterCancel ==
  /\ [](inflight # {} /\ aborted => abortAt = <<pass, idx>>)
  /\ [][aborted => (inflight' \subseteq inflight /\ tReqs' <= tReqs)]_vars

C5_Witness ==
  /\ aborted
  /\ abortAt = <<1, 2>>
  /\ pass = 2
  /\ pc = "fetch"
  /\ tReqs = 0

\* ---- C6 ----
\* C6: when the per-target fetch ends cancelled, the loop is left by break:
\* the counters and both failed lists keep their values and the pass is over.
C6_CancelledStopsPass ==
  [][(aborted /\ pc \in {"fetch", "inflight"}
        /\ pc' \in {"loopHead", "summary"})
       => /\ pc' = "summary"
          /\ broke'[pass]
          /\ UNCHANGED <<successCount, failureCount, failedPages,
                         newFailedPages, idx, pass>>]_vars

C6_Witness ==
  /\ pc = "summary"
  /\ pass = 1
  /\ broke[1]
  /\ fExit = "cancelled"
  /\ Len(parsedPages) = 3
  /\ idx = 2
  /\ failureCount = 1
  /\ failedPages = <<1>>

\* ---- C7 ----
\* C7: the retry confirmation is asked, and the retry pass entered, only if
\* the first pass ended with nonempty failedPages and was not cancelled.
C7_NoRetryAfterCancel ==
  (pc = "prompt" \/ pass = 2) => (failedPages # <<>> /\ ~broke[1])

\* ---- C8 ----
\* C8: after a first pass with failedPages = [A, B] and a confirmed retry in
\* which A succeeds and B still fails, the retry summary is successCount = 1,
\* failureCount = 1, failed = [B]; the first summary and failedPages are what
\* they were when the first pass ended.
C8_Pre ==
  /\ pass = 2
  /\ pc = "done"
  /\ ~aborted
  /\ Len(failedPages) = 2
  /\ failedPages[1] \in fetched
  /\ perr = {}
  /\ failedPages[2] \notin fetched

C8_RetrySummary ==
  /\ [](C8_Pre =>
         /\ Len(log) = 2
         /\ log[2] = [pass |-> 2, success |-> 1, failure |-> 1,
                      failed |-> <<failedPages[2]>>]
         /\ log[1] = [pass |-> 1,
                      success |-> Len(parsedPages) - 2,
                      failure |-> 2, failed |-> <<>>])
  /\ [][pass' = 2 => (log'[1] = log[1] /\ failedPages' = failedPages)]_vars

C8_Witness ==
  /\ C8_Pre
  /\ Len(parsedPages) = 3
  /\ failedPages = <<1, 3>>
  /\ newFailedPages = <<3>>

\* ---- C9 ----
\* C9: the retry pass sends requests only for pages that failed in the first
\* pass, in failedPages order, and no pass follows it.
C9_RetryOnlyFailed ==
  /\ [](/\ passes <= 2
        /\ pass = 2 =>
             /\ inflight \subseteq failed1
             /\ inflight \cap succeeded1 = {}
             /\ Range(failedPages) = failed1
             /\ succeeded \cup failed \subseteq failed1
             /\ InTarget =>
                  succeeded \cup failed
                    = {failedPages[j] : j \in 1..(idx - 1)})
  /\ [][pass = 2 /\ PassEnded => (pass' = 2 /\ PassEnded')]_vars

C9_Witness ==
  /\ pass = 2
  /\ inflight = {3}
  /\ succeeded1 = {2}
  /\ failedPages = <<1, 3>>
  /\ idx = 2

\* ---- C10 ----
\* C10: within a pass at most one request is in flight, it is for the target
\* the loop is at, every earlier target of the pass has its outcome recorded
\* and no later one has, and outcomes go to the target that produced them.
C10_Sequential ==
  pc # "idle" =>
    /\ Cardinality(inflight) <= 1
    /\ inflight # {} => (pc = "inflight" /\ inflight = {CurPage})
    /\ InTarget =>
         succeeded \cup failed = {PassInput(pass)[j] : j \in 1..(idx - 1)}
    /\ Range(PassFailedList) = failed
    /\ succeeded \subseteq (fetched \ perr)
    /\ (failed \cap fetched) \subseteq perr

C10_Witness ==
  /\ pc = "inflight"
  /\ pass = 1
  /\ idx = 3
  /\ inflight = {3}
  /\ succeeded = {1}
  /\ failed = {2}

\* ---- C11 ----
\* C11 as stated: a persistence failure with the token unset ends the pass
\* without counting the target as a failure.
C11_PersistenceAbortsPass ==
  [][(pc \in {"save", "csv"} /\ ~aborted /\ perr' # perr)
       => /\ pc' = "summary"
          /\ UNCHANGED <<failureCount, failedPages, newFailedPages>>]_vars

\* C11 as amended: a persistence failure with the token unset is caught by
\* the per-target catch: the target is counted in failureCount and appended
\* to the pass's failed list, successCount is untouched and the loop goes on
\* to the next target.
C11_PersistenceCountedAsFailure ==
  [][(pc \in {"save", "csv"} /\ ~aborted /\ perr' # perr)
       => /\ pc' = "loopHead"
          /\ failureCount' = failureCount + 1
          /\ PassFailedList' = Append(PassFailedList, CurPage)
          /\ UNCHANGED <<successCount, idx, pass>>]_vars

C11_Witness ==
  /\ ~aborted
  /\ pass = 1
  /\ perr = {1}
  /\ 1 \in fetched
  /\ failedPages = <<1>>
  /\ pc = "inflight"
  /\ idx = 2

\* ---- C12 ----
\* C12: when apiKey is missing or empty, or pages is missing, not a list,
\* has a malformed entry or is empty, monitor fails with a config error
\* before any fetch, save or prompt.
ConfigBad ==
  \/ config.apiKey # "key"
  \/ config.pages.kind # "array"
  \/ \E i \in 1..Len(config.pages.list) : config.pages.list[i] = BadEntry
  \/ config.pages.list = <<>>

C12_ConfigErrorsAreFatal ==
  ConfigBad => pc \in {"idle", "configError"}

\* ---- C13 ----
HeaderCount(rows) == Cardinality({i \in 1..Len(rows) : rows[i] = Header})

NonEmptyFile(f) == f.exists /\ Len(f.rows) > 0

\* C13: a metrics.csv holds the header once, as its first row; a call writes
\* the header only when it finds the file absent or empty; after n successful
\* calls the file is what it was (or the header, if it was absent or empty)
\* followed by the n rows in call order.
C13_HeaderOnce ==
  /\ [](\A d \in CsvDirs :
          /\ HeaderCount(csvFiles[d].rows) <= 1
          /\ csvFiles[d].rows # <<>> => csvFiles[d].rows[1] = Header
          /\ appended[d] # <<>> =>
               csvFiles[d].rows =
                 (IF NonEmptyFile(csvPrior[d]) THEN csvPrior[d].rows
                  ELSE <<Header>>) \o appended[d])
  /\ [][\A d \in CsvDirs :
          HeaderCount(csvFiles'[d].rows) > HeaderCount(csvFiles[d].rows)
            => ~NonEmptyFile(csvFiles[d])]_vars

C13_Witness ==
  \E d \in CsvDirs :
    /\ ~csvPrior[d].exists
    /\ Len(appended[d]) = 2
    /\ csvFiles[d].rows = <<Header>> \o appended[d]

\* ---- C14 ----
IsPrefix(s, t) == Len(s) <= Len(t) /\ SubSeq(t, 1, Len(s)) = s

\* C14: a call leaves every row of a non-empty metrics.csv in place: the
\* file before the call is a prefix of the file after it.
C14_AppendOnly ==
  [][\A d \in CsvDirs :
       NonEmptyFile(csvFiles[d])
         => IsPrefix(csvFiles[d].rows, csvFiles'[d].rows)]_vars

C14_Witness ==
  \E d \in CsvDirs :
    /\ csvPrior[d].rows = <<Header, OldRow>>
    /\ Len(appended[d]) = 2
    /\ csvFiles[d].rows = <<Header, OldRow>> \o appended[d]

\* ---- C15 ----
SamePair(s1, s2) == s1.ctx = s2.ctx /\ s1.title = s2.title

C16_TokenMonotonic ==
  /\ ~aborted
  /\ [][aborted => aborted']_vars
  /\ [][aborted' # aborted =>
          UNCHANGED <<retries, parsedPages, pc, pass, idx, rAttempt, attempt,
                      data, successCount, failureCount, failedPages,
                      newFailedPages, log, config, store>>]_vars
  /\ []((aborted /\ pc \in AwaitPoints) =>
          (ENABLED Sigint /\ ~ENABLED (Sigint /\ vars' # vars)))

C16_Witness ==
  /\ aborted
  /\ abortAt[1] = 1
  /\ pass = 2
  /\ pc = "summary"

\* ---- C17 ----
\* C17: successCount counts the targets of the current pass with both a raw
\* result and a metrics row; a metrics row is written only after the raw
\* result, and both only for a target whose remote call succeeded; the
\* counter moves by one, at the end of saveMetricsToCSV for the target.
C17_SuccessAfterPersistence ==
  /\ [](/\ successCount = Cardinality(rawSaved \cap csvSaved)
        /\ csvSaved \subseteq rawSaved
        /\ csvSaved \subseteq fetched)
  /\ [][(successCount' # successCount /\ pass' = pass) =>
          /\ pc = "csv"
          /\ successCount' = successCount + 1
          /\ CurPage \in fetched \cap rawSaved
          /\ csvSaved' = csvSaved \cup {CurPage}
          /\ CurPage \notin csvSaved]_vars

C17_Witness ==
  /\ pass = 1
  /\ successCount = 2
  /\ csvSaved = {1, 2}
  /\ rawSaved = {1, 2}
  /\ pc = "loopHead"

\* ---- C18 ----
\* C18: with retries = k the run issues at most k network requests for any
\* one target.
C18_AtMostKCalls == tReqs <= retries

\* ---- C19 ----
\* C19: a target in the pass's failed list has neither a raw result file nor
\* a metrics row written for it during the pass.
C19_FailedNotPersisted ==
  Range(PassFailedList) \cap (rawSaved \cup csvSaved) = {}

\* ---- C20 ----
\* C20: in either pass failureCount is the length of the pass's failed list,
\* and the failed list is the pass's input restricted to the failed targets:
\* a subsequence of the input with no target twice.
C20_FailedIsSubsequence ==
  pc \notin {"idle", "configError"} =>
    /\ failureCount = Len(PassFailedList)
    /\ PassFailedList = Restrict(PassInput(pass), Range(PassFailedList))

C20_Witness ==
  /\ pass = 1
  /\ parsedPages = Ids(3)
  /\ failedPages = <<1, 3>>
  /\ failureCount = 2
  /\ succeeded = {2}

\* ---- C21 ----
\* C21: the retry pass never writes failedPages; its own list newFailedPages
\* is failedPages restricted to the targets that failed again, and its
\* counters add up to at most Len(failedPages), to exactly that when the pass
\* has ended and the token was never set.
C21_RetryOwnList ==
  /\ [](pass = 2 =>
          /\ newFailedPages = Restrict(failedPages, Range(newFailedPages))
          /\ successCount + failureCount <= Len(failedPages)
          /\ (PassEnded /\ ~aborted) =>
               successCount + failureCount = Len(failedPages))
  /\ [][pass = 2 => failedPages' = failedPages]_vars

C21_Witness ==
  /\ pass = 2
  /\ pc = "done"
  /\ ~aborted
  /\ failedPages = <<1, 2, 3>>
  /\ newFailedPages = <<1, 3>>
  /\ successCount = 1
  /\ failureCount = 2

\* ---- C22 ----
\* C22: if every await returns, a run with retries >= 1 reaches its end
\* (monitor returns, or throws on the config), whatever SIGINTs arrive; and
\* when monitor has returned there is one summary for each pass it started.
C22_Terminates ==
  /\ (retries >= 1) => <>(pc \in {"done", "configError"})
  /\ [](pc = "done" =>
          /\ Len(log) = passes
          /\ \A p \in 1..passes : log[p].pass = p)

C22_Witness ==
  /\ retries >= 1
  /\ pc = "done"
  /\ aborted
  /\ passes = 2
  /\ Len(log) = 2
  /\ broke[2]

\* ---- C23 ----
\* C23: saveResults and saveMetricsToCSV are entered only with the result of
\* a successful request for the current target.
C23_PersistOnlyResult ==
  pc \in {"save", "csv"} => (data = "result" /\ CurPage \in fetched)

====
